---- MODULE Spec2Model ----
(***************************************************************************)
(* readup (src/main.go): scan a document for fenced code blocks whose      *)
(* first inner line is "> command", run the command, splice its output     *)
(* into the block, stage the result in a scratch file, diff, ask for       *)
(* confirmation and copy the scratch file over the original.               *)
(*                                                                         *)
(* Strings are sequences of characters, each character a string; a         *)
(* document on disk is such a sequence with LF as the line terminator.     *)
(***************************************************************************)
EXTENDS Integers, Sequences, FiniteSets, TLC

VARIABLES
    file,         \* content of the original file (os.Args[1]) on disk
    tmp,          \* the scratch file: [exists, data]
    pc,           \* position of main: open, scan, stage, diff, confirm, cp, rm, exit
    off,          \* bytes of the file the bufio.Scanner has consumed
    lines,        \* readup: var lines []string
    inCodeBlock,  \* readup: var inCodeBlock bool
    codeBlock,    \* readup: var codeBlock []string
    content,      \* main: content returned by readup
    text,         \* main: the confirmation line read from stdin
    exitCode,     \* process exit status, Running while the process runs
    stderr,       \* messages printed to os.Stderr by this run
    calls,        \* program and arguments execCommand started for readup, in order
    env,          \* what each command printed when run: set of <<cmd, raw output>>
    faults,       \* the failures the environment produced in this run
    run           \* number of the current run of the tool

vars == <<file, tmp, pc, off, lines, inCodeBlock, codeBlock, content, text,
          exitCode, stderr, calls, env, faults, run>>

(*************************** bounds ****************************************)
MaxFragments == 2   \* fragments concatenated into an initial document
MaxDirLen == 3      \* characters after "> " in the directive-parsing documents
MaxRuns == 2        \* consecutive runs of the tool

(*************************** characters ************************************)
LF == "\n"
CR == "\r"
SP == " "
Running == -1

BT == "bt"   \* the backtick character
FenceToken == <<BT, BT, BT>>
DirectivePrefix == <<">", SP>>

(*************************** strings ***************************************)
\* strings.HasPrefix
HasPrefix(s, p) == Len(s) >= Len(p) /\ SubSeq(s, 1, Len(p)) = p

\* bytes.IndexByte: position of the first c in s, 0 when there is none
IndexByte(s, c) ==
    IF \E i \in 1..Len(s) : s[i] = c
    THEN CHOOSE i \in 1..Len(s) : s[i] = c /\ \A j \in 1..(i - 1) : s[j] # c
    ELSE 0

\* strings.Join
RECURSIVE Join(_, _)
Join(ss, sep) ==
    IF Len(ss) = 0 THEN <<>>
    ELSE IF Len(ss) = 1 THEN ss[1]
    ELSE ss[1] \o sep \o Join(Tail(ss), sep)

\* strings.Split(s, " ") with a one-character separator
RECURSIVE Split(_, _)
Split(s, c) ==
    LET i == IndexByte(s, c)
    IN IF i = 0 THEN <<s>>
       ELSE <<SubSeq(s, 1, i - 1)>> \o Split(SubSeq(s, i + 1, Len(s)), c)

\* strings.Replace(output, "\r", "", -1)
StripCR(s) == SelectSeq(s, LAMBDA c : c # CR)

Whitespace == {SP, LF, CR, "\t"}

\* strings.TrimSpace
RECURSIVE TrimLeft(_)
TrimLeft(s) ==
    IF Len(s) > 0 /\ s[1] \in Whitespace THEN TrimLeft(Tail(s)) ELSE s

RECURSIVE TrimRight(_)
TrimRight(s) ==
    IF Len(s) > 0 /\ s[Len(s)] \in Whitespace
    THEN TrimRight(SubSeq(s, 1, Len(s) - 1)) ELSE s

TrimSpace(s) == TrimRight(TrimLeft(s))

\* strings.ToLower on the letters of the confirmation inputs
LowerOf(c) ==
    IF c = "Y" THEN "y" ELSE IF c = "N" THEN "n" ELSE IF c = "E" THEN "e"
    ELSE IF c = "S" THEN "s" ELSE c

ToLower(s) == [i \in 1..Len(s) |-> LowerOf(s[i])]

(*************************** bufio.Scanner *********************************)
\* bufio.dropCR
dropCR(d) ==
    IF Len(d) > 0 /\ d[Len(d)] = CR THEN SubSeq(d, 1, Len(d) - 1) ELSE d

\* bufio.ScanLines(data, atEOF), as used by bufio.NewScanner
ScanLines(data, atEOF) ==
    LET i == IndexByte(data, LF)
    IN IF atEOF /\ Len(data) = 0
       THEN [advance |-> 0, token |-> <<>>, ok |-> FALSE]
       ELSE IF i > 0
       THEN [advance |-> i, token |-> dropCR(SubSeq(data, 1, i - 1)), ok |-> TRUE]
       ELSE IF atEOF
       THEN [advance |-> Len(data), token |-> dropCR(data), ok |-> TRUE]
       ELSE [advance |-> 0, token |-> <<>>, ok |-> FALSE]

(*************************** documents *************************************)
Fence == FenceToken
FenceTag == FenceToken \o <<"g">>
Dir1 == DirectivePrefix \o <<"a", SP, "b", SP, "c">>
Dir2 == DirectivePrefix \o <<"c">>
Txt == <<"x">>
TxtCR == <<"x", CR>>
Blank == <<>>

Fragments ==
    { <<Txt>>, <<Blank>>,
      <<Fence, Dir1, Fence>>,
      <<Fence, Dir2, Txt, FenceTag>>,
      <<Fence, Fence>>,
      <<FenceTag, TxtCR, Fence>>,
      <<Fence, Dir1>> }

RECURSIVE Flatten(_)
Flatten(fs) == IF Len(fs) = 0 THEN <<>> ELSE fs[1] \o Flatten(Tail(fs))

FragmentSeqs == UNION {[1..n -> Fragments] : n \in 0..MaxFragments}

Documents == {Join(Flatten(fs), <<LF>>) : fs \in FragmentSeqs}

DirChars == {"a", "b", SP}

DirTexts == UNION {[1..n -> DirChars] : n \in 0..MaxDirLen}

DirectiveDocuments ==
    {Join(<<Fence, DirectivePrefix \o t, Fence>>, <<LF>>) : t \in DirTexts}

\* what a command may print on the pseudo-terminal
RawOutputs ==
    { <<>>,
      <<"h", CR, LF>>,
      <<BT, BT, BT>> }

ConfirmInputs ==
    { <<>>, <<LF>>, <<"y", LF>>, <<SP, "Y", LF>>, <<"y", "e", "s", LF>>, <<"n", LF>> }

\* what a failed write may leave behind of s: nothing, or all but its last byte
PartialWrites(s) == {SubSeq(s, 1, k) : k \in {0, Len(s) - 1} \cap (0..(Len(s) - 1))}

NoFile == [exists |-> FALSE, data |-> <<>>]

(*************************** Init ******************************************)
Init ==
    /\ file \in Documents \cup DirectiveDocuments
    /\ tmp = NoFile
    /\ pc = "open"
    /\ off = 0
    /\ lines = <<>>
    /\ inCodeBlock = FALSE
    /\ codeBlock = <<>>
    /\ content = <<>>
    /\ text = <<>>
    /\ exitCode = Running
    /\ stderr = <<>>
    /\ calls = <<>>
    /\ env = {}
    /\ faults = {}
    /\ run = 1

(*************************** main: error exits *****************************)
\* print the error on os.Stderr and os.Exit(1)
ExitError(kind) ==
    /\ pc' = "exit"
    /\ exitCode' = 1
    /\ stderr' = Append(stderr, <<"Error: ", kind>>)
    /\ faults' = faults \cup {kind}

(*************************** readup ****************************************)
\* os.Open(filename)
Open ==
    /\ pc = "open"
    /\ pc' = "scan"
    /\ UNCHANGED <<file, tmp, off, lines, inCodeBlock, codeBlock, content, text,
                   exitCode, stderr, calls, env, faults, run>>

OpenFail ==
    /\ pc = "open"
    /\ ExitError("open")
    /\ UNCHANGED <<file, tmp, off, lines, inCodeBlock, codeBlock, content, text,
                   calls, env, run>>

\* the raw outputs execCommand may capture for cmd: the one recorded for it,
\* any when the command has not run yet
RawFor(cmd) ==
    IF \E p \in env : p[1] = cmd
    THEN {p[2] : p \in {q \in env : q[1] = cmd}}
    ELSE RawOutputs

\* the end of one iteration of the scan loop: back to scanner.Scan(), or,
\* when the scanner has stopped, return strings.Join(lines, "\n"), nil
LoopEnd(newLines, stop, readFault) ==
    /\ lines' = newLines
    /\ pc' = IF stop THEN "stage" ELSE "scan"
    /\ content' = IF stop THEN Join(newLines, <<LF>>) ELSE content
    /\ faults' = faults \cup readFault
    /\ UNCHANGED <<exitCode, stderr>>

\* a slice index out of range: the Go runtime panics, exit status 2
Panic ==
    /\ pc' = "exit"
    /\ exitCode' = 2
    /\ stderr' = Append(stderr, <<"panic: ", "index out of range">>)

\* variant: the splice starts right after the opening fence
BlockStartAfterFence(ls, cb) == Len(ls) - Len(cb) + 1

\* blockStart := len(lines) - len(codeBlock) + 2
BlockStart(ls, cb) == Len(ls) - Len(cb) + 2

\* the lines after the splice
Splice(ls, cb, output) ==
    SubSeq(ls, 1, BlockStart(ls, cb)) \o <<output>> \o <<FenceToken>>

\* variant: the accumulator starts empty at an opening fence
OpenBlockEmpty(line) == <<>>

\* the code block on seeing an opening fence
OpenBlock(line) == <<line>>

\* variant: every closed block is taken for a command block
IsDirectiveAlways(first) == TRUE

\* strings.HasPrefix(codeBlock[1], "> ")
IsDirective(first) == HasPrefix(first, DirectivePrefix)

\* variant: the directive line is split without cutting its prefix
CommandKeepsPrefix(first) == Split(first, SP)

\* codeBlockCommand := strings.Split(codeBlock[1][2:], " ")
Command(first) == Split(SubSeq(first, 3, Len(first)), SP)

\* execCommand: exec.Command(cmd[0], args...) with args = cmd[1:]
ExecArgv(cmd) ==
    [prog |-> cmd[1], args |-> IF Len(cmd) > 1 THEN Tail(cmd) ELSE <<>>]

\* pty.StartWithSize can start the command: exec.Command with an empty
\* program name always fails to start
Startable(cmd) == cmd[1] # <<>>

\* the body of the scan loop on one line; stop: scanner.Scan() is false next
Iterate(line, stop, readFault) ==
    LET lines1 == Append(lines, line)
        cb1 == IF inCodeBlock THEN Append(codeBlock, line) ELSE codeBlock
    IN IF ~inCodeBlock /\ HasPrefix(line, FenceToken)
       THEN /\ inCodeBlock' = TRUE
            /\ codeBlock' = OpenBlock(line)
            /\ LoopEnd(lines1, stop, readFault)
            /\ UNCHANGED <<calls, env>>
       ELSE IF inCodeBlock /\ HasPrefix(line, FenceToken)
       THEN /\ inCodeBlock' = FALSE
            /\ codeBlock' = cb1
            /\ IF Len(cb1) < 2
               THEN /\ Panic
                    /\ lines' = lines1
                    /\ faults' = faults \cup readFault
                    /\ UNCHANGED <<calls, env, content>>
               ELSE IF IsDirective(cb1[2])
               THEN LET cmd == Command(cb1[2])
                    IN /\ calls' = Append(calls, ExecArgv(cmd))
                       /\ \/ \E raw \in RawFor(cmd) :
                               /\ Startable(cmd)
                               /\ env' = env \cup {<<cmd, raw>>}
                               /\ LoopEnd(Splice(lines1, cb1, StripCR(raw)), stop, readFault)
                          \/ \E kind \in {"pty start", "pty read"} :
                               /\ Startable(cmd) \/ kind = "pty start"
                               /\ pc' = "exit"
                               /\ exitCode' = 1
                               /\ stderr' = Append(stderr, <<"Error: ", kind>>)
                               /\ faults' = faults \cup readFault \cup {kind}
                               /\ lines' = lines1
                               /\ UNCHANGED <<env, content>>
               ELSE /\ LoopEnd(lines1, stop, readFault)
                    /\ UNCHANGED <<calls, env>>
       ELSE /\ inCodeBlock' = inCodeBlock
            /\ codeBlock' = cb1
            /\ LoopEnd(lines1, stop, readFault)
            /\ UNCHANGED <<calls, env>>

\* scanner.Scan() delivers the next line
ScanLine ==
    /\ pc = "scan"
    /\ off < Len(file)
    /\ LET t == ScanLines(SubSeq(file, off + 1, Len(file)), TRUE)
       IN /\ off' = off + t.advance
          /\ Iterate(t.token, FALSE, {})
    /\ UNCHANGED <<file, tmp, text, run>>

\* variant: at the end of the file the lines of a block still open are dropped
ScanEOFDropsOpenBlock ==
    /\ pc = "scan"
    /\ off = Len(file)
    /\ pc' = "stage"
    /\ content' = Join(IF inCodeBlock
                       THEN SubSeq(lines, 1, Len(lines) - Len(codeBlock))
                       ELSE lines, <<LF>>)
    /\ UNCHANGED <<file, tmp, off, lines, inCodeBlock, codeBlock, text,
                   exitCode, stderr, calls, env, faults, run>>

\* scanner.Scan() is false at the end of the file: return the joined lines
ScanEOF ==
    /\ pc = "scan"
    /\ off = Len(file)
    /\ pc' = "stage"
    /\ content' = Join(lines, <<LF>>)
    /\ UNCHANGED <<file, tmp, off, lines, inCodeBlock, codeBlock, text,
                   exitCode, stderr, calls, env, faults, run>>

\* a read of the file fails after byte k: the scanner delivers what it holds
\* as a last token and stops; readup never looks at scanner.Err()
ScanReadErr ==
    /\ pc = "scan"
    /\ \E k \in off..(Len(file) - 1) :
         LET data == SubSeq(file, off + 1, k)
             t == ScanLines(data, TRUE)
         IN /\ IndexByte(data, LF) = 0
            /\ off' = k
            /\ IF t.ok
               THEN Iterate(t.token, TRUE, {"read"})
               ELSE /\ pc' = "stage"
                    /\ content' = Join(lines, <<LF>>)
                    /\ faults' = faults \cup {"read"}
                    /\ UNCHANGED <<lines, inCodeBlock, codeBlock, exitCode,
                                   stderr, calls, env>>
    /\ UNCHANGED <<file, tmp, text, run>>

(*************************** main ******************************************)
\* writeTempFile: ioutil.TempFile, then fmt.Fprintf whose error is dropped
Stage ==
    /\ pc = "stage"
    /\ tmp' = [exists |-> TRUE, data |-> content]
    /\ pc' = "diff"
    /\ UNCHANGED <<file, off, lines, inCodeBlock, codeBlock, content, text,
                   exitCode, stderr, calls, env, faults, run>>

StageCreateFail ==
    /\ pc = "stage"
    /\ ExitError("create")
    /\ UNCHANGED <<file, tmp, off, lines, inCodeBlock, codeBlock, content, text,
                   calls, env, run>>

\* the write to the scratch file fails part-way; writeTempFile returns nil
StageWriteFail ==
    /\ pc = "stage"
    /\ \E d \in PartialWrites(content) : tmp' = [exists |-> TRUE, data |-> d]
    /\ pc' = "diff"
    /\ faults' = faults \cup {"write"}
    /\ UNCHANGED <<file, off, lines, inCodeBlock, codeBlock, content, text,
                   exitCode, stderr, calls, env, run>>

\* execCommand(diff -u filename tmpName, false) and the printing of its output
Diff ==
    /\ pc = "diff"
    /\ pc' = "confirm"
    /\ UNCHANGED <<file, tmp, off, lines, inCodeBlock, codeBlock, content, text,
                   exitCode, stderr, calls, env, faults, run>>

DiffFail ==
    /\ pc = "diff"
    /\ \E kind \in {"pty start", "pty read"} : ExitError(kind)
    /\ UNCHANGED <<file, tmp, off, lines, inCodeBlock, codeBlock, content, text,
                   calls, env, run>>

\* variant: any answer that begins with y is taken for a yes
AcceptsPrefix(t) == HasPrefix(ToLower(TrimSpace(t)), <<"y">>)

\* the answer that lets main go on to the copy
Accepts(t) == ToLower(TrimSpace(t)) = <<"y">>

\* reader.ReadString('\n') and the test of the answer
Confirm ==
    /\ pc = "confirm"
    /\ \E t \in ConfirmInputs :
         /\ text' = t
         /\ IF Accepts(t)
            THEN /\ pc' = "cp"
                 /\ UNCHANGED exitCode
            ELSE /\ pc' = "exit"
                 /\ exitCode' = 0
    /\ UNCHANGED <<file, tmp, off, lines, inCodeBlock, codeBlock, content,
                   stderr, calls, env, faults, run>>

\* exec.Command("cp", tmpName, filename).Run()
Copy ==
    /\ pc = "cp"
    /\ file' = tmp.data
    /\ pc' = "rm"
    /\ UNCHANGED <<tmp, off, lines, inCodeBlock, codeBlock, content, text,
                   exitCode, stderr, calls, env, faults, run>>

\* cp fails: before touching the target, or after writing part of it
CopyFail ==
    /\ pc = "cp"
    /\ \/ file' = file
       \/ file' \in PartialWrites(tmp.data)
    /\ ExitError("cp")
    /\ UNCHANGED <<tmp, off, lines, inCodeBlock, codeBlock, content, text,
                   calls, env, run>>

\* os.Remove(tmpName); os.Exit(0)
Remove ==
    /\ pc = "rm"
    /\ tmp' = NoFile
    /\ pc' = "exit"
    /\ exitCode' = 0
    /\ UNCHANGED <<file, off, lines, inCodeBlock, codeBlock, content, text,
                   stderr, calls, env, faults, run>>

RemoveFail ==
    /\ pc = "rm"
    /\ ExitError("remove")
    /\ UNCHANGED <<file, tmp, off, lines, inCodeBlock, codeBlock, content, text,
                   calls, env, run>>

\* the tool is run again on the file it has just updated
Rerun ==
    /\ pc = "exit"
    /\ exitCode = 0
    /\ ~tmp.exists
    /\ faults = {}
    /\ run < MaxRuns
    /\ run' = run + 1
    /\ pc' = "open"
    /\ off' = 0
    /\ lines' = <<>>
    /\ inCodeBlock' = FALSE
    /\ codeBlock' = <<>>
    /\ content' = <<>>
    /\ text' = <<>>
    /\ exitCode' = Running
    /\ stderr' = <<>>
    /\ calls' = <<>>
    /\ UNCHANGED <<file, tmp, env, faults>>

Next ==
    \/ Open \/ OpenFail
    \/ ScanLine \/ ScanEOF \/ ScanReadErr
    \/ Stage \/ StageCreateFail \/ StageWriteFail
    \/ Diff \/ DiffFail
    \/ Confirm
    \/ Copy \/ CopyFail
    \/ Remove \/ RemoveFail
    \/ Rerun

Spec == Init /\ [][Next]_vars

(***************************************************************************)
(* The document as the scanner delivered it, and its blocks, defined from  *)
(* the fence lines alone.                                                  *)
(***************************************************************************)
\* the lines of data, as bufio.ScanLines cuts them at the end of the data
RECURSIVE AllLines(_)
AllLines(data) ==
    LET t == ScanLines(data, TRUE)
    IN IF ~t.ok THEN <<>>
       ELSE <<t.token>> \o AllLines(SubSeq(data, t.advance + 1, Len(data)))

\* the lines the scanner has delivered to the loop so far
Delivered == AllLines(SubSeq(file, 1, off))

\* the original file is still as this run found it
Scanning == pc \in {"scan", "stage"}

\* readup returned an error from execCommand
RunnerFailed ==
    /\ pc = "exit"
    /\ exitCode = 1
    /\ ~tmp.exists
    /\ faults \cap {"pty start", "pty read"} # {}

IsFence(l) == HasPrefix(l, FenceToken)

FencesUpTo(ls, i) == Cardinality({j \in 1..i : IsFence(ls[j])})

\* line c is the closing fence of a block
Closes(ls, c) == IsFence(ls[c]) /\ FencesUpTo(ls, c) % 2 = 0

\* the opening fence of the block that line c closes
OpenerOf(ls, c) ==
    CHOOSE o \in 1..(c - 1) :
        IsFence(ls[o]) /\ \A j \in (o + 1)..(c - 1) : ~IsFence(ls[j])

\* line c closes a block whose first inner line begins with "> "
EligibleClose(ls, c) ==
    /\ Closes(ls, c)
    /\ c > OpenerOf(ls, c) + 1
    /\ HasPrefix(ls[OpenerOf(ls, c) + 1], DirectivePrefix)

EligibleCloses(ls) == {c \in 1..Len(ls) : EligibleClose(ls, c)}

\* the text after "> " on the first inner line of the block closed at c
DirectiveText(ls, c) ==
    LET d == ls[OpenerOf(ls, c) + 1] IN SubSeq(d, 3, Len(d))

\* the normalized output recorded for the command of the block closed at c
OutputOf(ls, c) ==
    LET cmd == Split(DirectiveText(ls, c), SP)
    IN IF \E p \in env : p[1] = cmd
       THEN StripCR((CHOOSE p \in env : p[1] = cmd)[2])
       ELSE <<"no output recorded">>

\* line i lies in a terminated eligible block, at least `from` lines after
\* its opening fence and before its closing fence
InsideEligible(ls, i, from) ==
    \E c \in (i + 1)..Len(ls) :
        EligibleClose(ls, c) /\ OpenerOf(ls, c) + from <= i

\* what line i contributes when the inner lines from the `from`-th on are
\* replaced by the output
Contribution(ls, i, from) ==
    IF EligibleClose(ls, i) THEN <<OutputOf(ls, i), FenceToken>>
    ELSE IF InsideEligible(ls, i, from) THEN <<>>
    ELSE <<ls[i]>>

RECURSIVE Rebuilt(_, _, _)
Rebuilt(ls, n, from) ==
    IF n = 0 THEN <<>>
    ELSE Rebuilt(ls, n - 1, from) \o Contribution(ls, n, from)

(***************************************************************************)
(* C1. Splice correctness                                                  *)
(***************************************************************************)
\* C1 as stated: in the returned document every terminated eligible block is
\* its opening fence, the normalized output and a closing fence of three
\* backticks; every inner line, the directive included, is gone.
C1_SpliceDropsAllInner ==
    (pc = "stage" /\ faults = {}) =>
        content = Join(Rebuilt(Delivered, Len(Delivered), 1), <<LF>>)

\* C1 amended: in the returned document every terminated eligible block is
\* its opening fence, its directive line, the normalized output and a closing
\* fence of three backticks; the inner lines after the directive and the old
\* closing fence are gone, every other line is kept.
C1_SpliceKeepsDirective ==
    /\ Scanning => lines = Rebuilt(Delivered, Len(Delivered), 2)
    /\ pc = "stage" => content = Join(lines, <<LF>>)

\* an eligible block with a stale line and a tagged closing fence was spliced
C1_Witness ==
    /\ pc = "stage"
    /\ faults = {}
    /\ \E c \in EligibleCloses(Delivered) :
         /\ c > OpenerOf(Delivered, c) + 2
         /\ Delivered[c] # FenceToken
         /\ OutputOf(Delivered, c) = <<"h", LF>>

(***************************************************************************)
(* C8. Runner invocation order                                             *)
(***************************************************************************)
RECURSIVE ExpectedCalls(_, _)
ExpectedCalls(ls, n) ==
    IF n = 0 THEN <<>>
    ELSE ExpectedCalls(ls, n - 1) \o
         (IF EligibleClose(ls, n)
          THEN <<ExecArgv(Split(DirectiveText(ls, n), SP))>>
          ELSE <<>>)

\* C8: the commands started during a scan are those of the terminated
\* eligible blocks delivered so far, once each, in the order of their closing
\* fences; when a command fails the scan ends there, with the failing
\* command the last one started and an empty document returned.
C8_RunnerOrder ==
    /\ Scanning => calls = ExpectedCalls(Delivered, Len(Delivered))
    /\ RunnerFailed =>
         /\ calls = ExpectedCalls(Delivered, Len(Delivered))
         /\ EligibleClose(Delivered, Len(Delivered))
         /\ content = <<>>

\* two eligible blocks with different commands ran in order, around a block
\* that is not eligible
C8_Witness ==
    /\ pc = "stage"
    /\ Len(calls) = 2
    /\ calls[1] # calls[2]

\* a command of the second block failed after the first block's ran
C8_WitnessFailure ==
    /\ RunnerFailed
    /\ Len(calls) = 2

(***************************************************************************)
(* C7. Directive parsing                                                   *)
(***************************************************************************)
Spaces(s) == Cardinality({i \in 1..Len(s) : s[i] = SP})

Argv(call) == <<call.prog>> \o call.args

\* the i-th eligible closing fence of ls
RECURSIVE NthEligible(_, _, _)
NthEligible(ls, i, from) ==
    LET c == CHOOSE c \in EligibleCloses(ls) :
                 c >= from /\ \A d \in EligibleCloses(ls) : d >= from => c <= d
    IN IF i = 1 THEN c ELSE NthEligible(ls, i - 1, c + 1)

\* C7: the program and arguments started for an eligible block are the text
\* after "> " cut at every single space: no token holds a space, there is one
\* token more than spaces, the tokens joined by single spaces give the text
\* back, the first is the program and the rest, in order, the arguments.
C7_DirectiveParsing ==
    (Scanning \/ RunnerFailed) =>
        /\ Len(calls) = Cardinality(EligibleCloses(Delivered))
        /\ \A i \in 1..Len(calls) :
             LET t == DirectiveText(Delivered, NthEligible(Delivered, i, 1))
                 argv == Argv(calls[i])
             IN /\ Join(argv, <<SP>>) = t
                /\ Len(argv) = Spaces(t) + 1
                /\ \A k \in 1..Len(argv) : Spaces(argv[k]) = 0
                /\ HasPrefix(t, calls[i].prog)

\* "> a b c" started program a with arguments b and c
C7_Witness ==
    /\ Scanning
    /\ Len(calls) >= 1
    /\ calls[1] = [prog |-> <<"a">>, args |-> << <<"b">>, <<"c">> >>]

\* a directive with two spaces in a row gave an empty argument
C7_WitnessEmptyToken ==
    /\ Scanning
    /\ \E i \in 1..Len(calls) :
         Len(calls[i].args) = 2 /\ calls[i].args[1] = <<>>

(***************************************************************************)
(* C9. Empty-block guard                                                   *)
(***************************************************************************)
\* C9: when the scanner closes a block the accumulator holds at least two
\* lines, so reading its second line never panics; when it holds exactly two
\* (no inner line) the line read is the closing fence, no command is started
\* and the block stays as it was in the output lines.
C9_EmptyBlockGuard ==
    [][(pc = "scan" /\ inCodeBlock /\ ~inCodeBlock') =>
         /\ exitCode' # 2
         /\ Len(codeBlock') >= 2
         /\ Len(codeBlock') = 2 =>
              /\ IsFence(codeBlock'[2])
              /\ ~HasPrefix(codeBlock'[2], DirectivePrefix)
              /\ calls' = calls
              /\ lines' = Append(lines, codeBlock'[2])
              /\ SubSeq(lines', Len(lines') - 1, Len(lines')) = codeBlock'
              /\ pc' \in {"scan", "stage"}]_vars

\* a block with no inner line has just been closed
C9_Witness ==
    /\ Scanning
    /\ ~inCodeBlock
    /\ Len(codeBlock) = 2
    /\ Len(lines) >= 2

(***************************************************************************)
(* C10. Unterminated trailing block                                        *)
(***************************************************************************)
Unterminated(ls) == FencesUpTo(ls, Len(ls)) % 2 = 1

LastFence(ls) ==
    CHOOSE o \in 1..Len(ls) :
        IsFence(ls[o]) /\ \A j \in (o + 1)..Len(ls) : ~IsFence(ls[j])

\* C10: when the input ends inside a block, readup returns without error, the
\* returned document ends with every line from the opening fence of that
\* block to the end of the input, unchanged, and the only commands started
\* are those of the blocks closed before it.
C10_UnterminatedBlock ==
    (pc = "stage" /\ Unterminated(Delivered)) =>
        LET ls == Delivered
            o == LastFence(ls)
            n == Len(ls) - o + 1
        IN /\ inCodeBlock
           /\ exitCode = Running
           /\ stderr = <<>>
           /\ Len(lines) >= n
           /\ content = Join(SubSeq(lines, 1, Len(lines) - n) \o
                             SubSeq(ls, o, Len(ls)), <<LF>>)
           /\ codeBlock = SubSeq(ls, o, Len(ls))
           /\ Len(calls) = Cardinality(EligibleCloses(ls))

\* the file ended in an open block that begins with a directive, after a
\* block whose command was run
C10_Witness ==
    /\ pc = "stage"
    /\ faults = {}
    /\ Unterminated(Delivered)
    /\ LastFence(Delivered) < Len(Delivered)
    /\ HasPrefix(Delivered[LastFence(Delivered) + 1], DirectivePrefix)
    /\ Len(calls) = 1

(***************************************************************************)
(* C4. Decline path                                                        *)
(***************************************************************************)
\* the answer is one y or Y with nothing but white space around it
IsYes(t) ==
    \E i \in 1..Len(t) :
        /\ t[i] \in {"y", "Y"}
        /\ \A j \in (1..Len(t)) \ {i} : t[j] \in Whitespace

\* C4: the original file changes only in the copy step; the copy step is
\* entered only from the confirmation, on an answer that is y or Y once the
\* white space around it is cut; on any other answer the run ends there with
\* exit status 0 and the original file and the scratch file as they were.
C4_DeclinePath ==
    [][/\ file' # file => (pc = "cp" /\ IsYes(text))
       /\ (pc' = "cp" /\ pc # "cp") => (pc = "confirm" /\ IsYes(text'))
       /\ (pc = "confirm" /\ pc' # "confirm" /\ ~IsYes(text')) =>
            /\ pc' = "exit"
            /\ exitCode' = 0
            /\ file' = file
            /\ tmp' = tmp]_vars

\* the answer "yes" ended a run whose scan had changed the document: exit
\* status 0 and the file is not the scanned content
C4_Witness ==
    /\ pc = "exit"
    /\ exitCode = 0
    /\ text = <<"y", "e", "s", LF>>
    /\ faults = {}
    /\ tmp.exists
    /\ tmp.data = content
    /\ content # file
    /\ Len(calls) >= 1

(***************************************************************************)
(* C2. Idempotence                                                         *)
(***************************************************************************)
\* C2 as stated: on the run that follows an accepted update, with every
\* command printing what it printed before and no failure, the scanned
\* content is the content of the file.
C2_Idempotence ==
    (run > 1 /\ pc = "stage" /\ faults = {}) => content = file

(***************************************************************************)
(* C3. Round trip                                                          *)
(***************************************************************************)
\* the lines of a document with their exact text, cut at LF only
RawLines(data) == Split(data, LF)

\* the lines ls[o..c] occur in a row in the lines ms
OccursIn(ls, o, c, ms) ==
    \E k \in 1..Len(ms) :
        k + (c - o) <= Len(ms) /\ SubSeq(ms, k, k + (c - o)) = SubSeq(ls, o, c)

\* C3 as stated: a scan without failure gives back a document with no
\* eligible block byte for byte, but for one trailing newline; and every
\* terminated block that is not eligible is in the returned document with
\* the exact bytes it has in the file.
C3_RoundTrip ==
    (pc = "stage" /\ faults = {}) =>
        LET raw == RawLines(file)
        IN /\ EligibleCloses(raw) = {} =>
                (content = file \/ content \o <<LF>> = file)
           /\ \A c \in 1..Len(raw) :
                (Closes(raw, c) /\ ~EligibleClose(raw, c)) =>
                    OccursIn(raw, OpenerOf(raw, c), c, RawLines(content))

(***************************************************************************)
(* C5. Accept path                                                         *)
(***************************************************************************)
\* C5 as stated: a run that ends with exit status 0 after the answer y leaves
\* the original file with the scanned content and no scratch file; the
\* scratch file goes only after the copy has succeeded.
C5_AcceptPath ==
    [][/\ (pc' = "exit" /\ exitCode' = 0 /\ IsYes(text')) =>
            (file' = content' /\ ~tmp'.exists)
       /\ (tmp.exists /\ ~tmp'.exists) => (pc = "rm" /\ file = tmp.data)]_vars

(***************************************************************************)
(* C6. Error propagation                                                   *)
(***************************************************************************)
\* C6 as stated: once a read, write, create, pseudo-terminal, copy or remove
\* has failed, the run has ended with exit status 1 and one "Error: " message
\* on the error stream; exit status 0 is reached only without such a failure.
C6_ErrorPropagation ==
    faults # {} =>
        /\ pc = "exit"
        /\ exitCode = 1
        /\ Len(stderr) = 1
        /\ stderr[1][1] = "Error: "

====
